---- MODULE Spec2Model ----
(***************************************************************************)
(* A model of workspace_monitor.py: the per-line prompt filter, the        *)
(* session extractor, the mtime-keyed session cache, the history scanner,  *)
(* the renderer and the polling cycle.                                     *)
(*                                                                         *)
(* Text is modelled as a sequence of one-character strings.  Every         *)
(* specification below shares the one variable tuple `vars`; the variables *)
(* a specification does not use stay at their idle value.                  *)
(***************************************************************************)
EXTENDS Integers, Sequences, FiniteSets, TLC

VARIABLES
    line,            \* parse_user_message: the raw line handed to the filter
    parsed,          \* parse_user_message: its outcome
    sessionLines,    \* extract_prompts_from_session: the lines of the session file
    maxPrompts,      \* extract_prompts_from_session: max_prompts
    extracted,       \* extract_prompts_from_session: its outcome
    history,         \* get_today_sessions: the lines of history.jsonl
    today,           \* get_today_sessions: date.today() at scan time
    scanned,         \* get_today_sessions: its outcome
    mappingA,        \* format_markdown: an input mapping (insertion-ordered)
    mappingB,        \* format_markdown: the same mapping built in another key order
    docA,            \* format_markdown: the document for mappingA
    docB,            \* format_markdown: the document for mappingB
    fs,              \* the session files under PROJECTS_DIR
    cache,           \* SessionCache._cache
    lastCall,        \* the last get_prompts call: what it saw and what it did
    entryFile,       \* history: the file each cache entry was extracted from
    extractedPairs,  \* history: the (file, mtime) pairs extracted so far
    repeated,        \* history: some (file, mtime) pair was extracted twice
    sinceStore,      \* history: extractions per key since its entry took its mtime
    pc,              \* main: where the process is
    cycleIn,         \* update_workspace_status: what this cycle finds on disk
    cycleSessions,   \* update_workspace_status: the sessions mapping in flight
    cycles           \* main: completed polling cycles

vars == << line, parsed, sessionLines, maxPrompts, extracted, history, today,
           scanned, mappingA, mappingB, docA, docB, fs, cache, lastCall,
           entryFile, extractedPairs, repeated, sinceStore, pc, cycleIn,
           cycleSessions, cycles >>

filterVars  == << line, parsed >>
extractVars == << sessionLines, maxPrompts, extracted >>
scanVars    == << history, today, scanned >>
formatVars  == << mappingA, mappingB, docA, docB >>
cacheVars   == << fs, cache, lastCall, entryFile, extractedPairs, repeated, sinceStore >>
callVars    == << lastCall, entryFile >>
lifeVars    == << extractedPairs, repeated, sinceStore >>
cycleVars   == << pc, cycleIn, cycleSessions, cycles >>

----------------------------------------------------------------------------
(* Text helpers.                                                           *)

Min(a, b) == IF a < b THEN a ELSE b

Lowercase == {"a","b","c","d","e","f","g","h","i","j","k","l","m",
              "n","o","p","q","r","s","t","u","v","w","x","y","z"}
Uppercase == {"A","B","C","D","E","F","G","H","I","J","K","L","M",
              "N","O","P","Q","R","S","T","U","V","W","X","Y","Z"}
Digits    == {"0","1","2","3","4","5","6","7","8","9"}

\* [a-zA-Z] and [a-zA-Z0-9-] of the two tag patterns, and \s
TagStartChars == Lowercase \cup Uppercase
TagNameChars  == TagStartChars \cup Digits \cup {"-"}
Whitespace    == {" ", "\t", "\n", "\r"}

\* str.strip()
RECURSIVE LStrip(_)
LStrip(s) == IF s # << >> /\ Head(s) \in Whitespace THEN LStrip(Tail(s)) ELSE s

RECURSIVE RStrip(_)
RStrip(s) ==
    IF s # << >> /\ s[Len(s)] \in Whitespace
    THEN RStrip(SubSeq(s, 1, Len(s) - 1)) ELSE s

Strip(s) == RStrip(LStrip(s))

\* `tag in content`
Contains(s, t) ==
    \E i \in 1..(Len(s) - Len(t) + 1) : SubSeq(s, i, i + Len(t) - 1) = t

\* ' '.join(content.split())
RECURSIVE CollapseFrom(_, _)
CollapseFrom(s, i) ==
    IF i > Len(s) THEN << >>
    ELSE IF s[i] \in Whitespace
         THEN IF i > 1 /\ s[i-1] \in Whitespace
              THEN CollapseFrom(s, i + 1)
              ELSE << " " >> \o CollapseFrom(s, i + 1)
         ELSE << s[i] >> \o CollapseFrom(s, i + 1)

JoinSplit(s) == CollapseFrom(Strip(s), 1)

----------------------------------------------------------------------------
(* parse_user_message (PromptFilter).                                      *)
(*                                                                         *)
(* A raw line is modelled by what json.loads makes of it:                  *)
(*   json = "invalid"  json.loads raises JSONDecodeError                   *)
(*   json = "value"    it parses to a value that is no object (null, a     *)
(*                     number, a string, a list): data.get does not exist  *)
(*   json = "object"   it parses to an object with the fields below        *)

MAX_PROMPT_CHARS == 300

Some(t) == [tag |-> "some", text |-> t]
None    == [tag |-> "none", text |-> << >>]
Raised  == [tag |-> "raise", text |-> << >>]
Pending == [tag |-> "pending", text |-> << >>]

skip_tags ==
    { << "<","c","o","m","m","a","n","d","-","n","a","m","e",">" >>,
      << "<","l","o","c","a","l","-","c","o","m","m","a","n","d","-",
         "s","t","d","o","u","t",">" >>,
      << "<","s","y","s","t","e","m","-","r","e","m","i","n","d","e","r",">" >>,
      << "<","t","a","s","k","-","n","o","t","i","f","i","c","a","t","i","o","n",">" >>,
      << "<","t","a","s","k","-","i","d",">" >>,
      << "<","o","u","t","p","u","t","-","f","i","l","e",">" >> }

\* the first index >= i whose character is not a tag-name character
RECURSIVE NameEnd(_, _)
NameEnd(s, i) ==
    IF i <= Len(s) /\ s[i] \in TagNameChars THEN NameEnd(s, i + 1) ELSE i

\* the first index >= i holding ">", or 0
RECURSIVE NextGt(_, _)
NextGt(s, i) ==
    IF i > Len(s) THEN 0 ELSE IF s[i] = ">" THEN i ELSE NextGt(s, i + 1)

\* (?!</) after a match ending at e
NotBeforeCloser(s, e) == ~(e + 2 <= Len(s) /\ s[e+1] = "<" /\ s[e+2] = "/")

\* <([a-zA-Z][a-zA-Z0-9-]*)(?:\s[^>]*)?>(?!</) matched at i: the index of
\* the match's last character, or 0.  The name is greedy and what follows it
\* is no name character, so the match at i is unique.
OpenTagEnd(s, i) ==
    IF ~(i + 1 <= Len(s) /\ s[i] = "<" /\ s[i+1] \in TagStartChars) THEN 0
    ELSE LET p == NameEnd(s, i + 2)
             e == IF p > Len(s) THEN 0
                  ELSE IF s[p] = ">" THEN p
                  ELSE IF s[p] \in Whitespace THEN NextGt(s, p + 1)
                  ELSE 0
         IN  IF e > 0 /\ NotBeforeCloser(s, e) THEN e ELSE 0

\* </([a-zA-Z][a-zA-Z0-9-]*)> matched at i
CloseTagEnd(s, i) ==
    IF ~(i + 2 <= Len(s) /\ s[i] = "<" /\ s[i+1] = "/" /\ s[i+2] \in TagStartChars)
    THEN 0
    ELSE LET p == NameEnd(s, i + 3)
         IN  IF p <= Len(s) /\ s[p] = ">" THEN p ELSE 0

\* len(re.findall(...)): leftmost, non-overlapping matches
RECURSIVE CountOpenFrom(_, _)
CountOpenFrom(s, i) ==
    IF i > Len(s) THEN 0
    ELSE LET e == OpenTagEnd(s, i)
         IN  IF e > 0 THEN 1 + CountOpenFrom(s, e + 1) ELSE CountOpenFrom(s, i + 1)

RECURSIVE CountCloseFrom(_, _)
CountCloseFrom(s, i) ==
    IF i > Len(s) THEN 0
    ELSE LET e == CloseTagEnd(s, i)
         IN  IF e > 0 THEN 1 + CountCloseFrom(s, e + 1) ELSE CountCloseFrom(s, i + 1)

open_tags(content)  == CountOpenFrom(content, 1)
close_tags(content) == CountCloseFrom(content, 1)

\* lines 156-163: one line, capped
Normalize(content) ==
    LET one == JoinSplit(content)
    IN  IF Len(one) > MAX_PROMPT_CHARS
        THEN SubSeq(one, 1, MAX_PROMPT_CHARS) \o << ".", ".", "." >>
        ELSE one

parse_user_message(l) ==
    IF l.json = "invalid" THEN None
    ELSE IF l.json = "value" THEN Raised          \* data.get: AttributeError
    ELSE IF l.type # "user" THEN None
    ELSE IF l.isMeta THEN None
    ELSE IF l.message # "dict" THEN None
    ELSE IF l.role # "user" THEN None
    ELSE IF ~l.contentIsStr THEN None
    ELSE LET content == Strip(l.content)
         IN  IF content = << >> THEN None
             ELSE IF \E tag \in skip_tags : Contains(content, tag) THEN None
             ELSE IF open_tags(content) # close_tags(content) THEN None
             ELSE Some(Normalize(content))

\* Sample lines.
ObjectLine(type, isMeta, message, role, contentIsStr, content) ==
    [json |-> "object", type |-> type, isMeta |-> isMeta, message |-> message,
     role |-> role, contentIsStr |-> contentIsStr, content |-> content]

UserLine(content) == ObjectLine("user", FALSE, "dict", "user", TRUE, content)
InvalidJsonLine   == [ObjectLine("", FALSE, "absent", "", FALSE, << >>) EXCEPT !.json = "invalid"]
NonObjectLine     == [ObjectLine("", FALSE, "absent", "", FALSE, << >>) EXCEPT !.json = "value"]

----------------------------------------------------------------------------
(* SpecFilter: parse_user_message on every user record whose content is a  *)
(* string over FilterAlphabet of length 1..MaxContentLen.                  *)

MaxContentLen == 5

FilterAlphabet == {"<", ">", "/", "a", " "}

RECURSIVE StringsUpTo(_, _)
StringsUpTo(alphabet, n) ==
    IF n = 0 THEN { << >> }
    ELSE LET shorter == StringsUpTo(alphabet, n - 1)
         IN  shorter \cup { Append(t, c) : t \in shorter, c \in alphabet }

FilterInit ==
    /\ line \in { UserLine(c) : c \in StringsUpTo(FilterAlphabet, MaxContentLen) \ { << >> } }
    /\ parsed = Pending

ParseLine ==
    /\ parsed = Pending
    /\ parsed' = parse_user_message(line)
    /\ UNCHANGED line

FilterIdle == line = InvalidJsonLine /\ parsed = Pending

----------------------------------------------------------------------------
(* extract_prompts_from_session (SessionExtractor).                        *)

Outcome(status, prompts) == [status |-> status, prompts |-> prompts]
NotRun == Outcome("pending", << >>)

\* lines 174-180: the loop over the file's lines.  `if prompt:` drops the
\* empty string as well as None.
RECURSIVE ExtractFrom(_, _, _, _)
ExtractFrom(lines, i, prompts, max_prompts) ==
    IF i > Len(lines) \/ Len(prompts) >= max_prompts THEN Outcome("ok", prompts)
    ELSE LET prompt == parse_user_message(lines[i])
         IN  IF prompt.tag = "raise" THEN Outcome("raise", << >>)
             ELSE IF prompt.tag = "some" /\ prompt.text # << >>
                  THEN ExtractFrom(lines, i + 1, Append(prompts, prompt.text), max_prompts)
                  ELSE ExtractFrom(lines, i + 1, prompts, max_prompts)

\* an unreadable file (OSError on open) yields [] and a warning
extract_prompts_from_session(readable, lines, max_prompts) ==
    IF ~readable THEN Outcome("ok", << >>)
    ELSE ExtractFrom(lines, 1, << >>, max_prompts)

----------------------------------------------------------------------------
(* SpecExtract: extract_prompts_from_session on every session file of at   *)
(* most MaxLines sample lines, for every max_prompts in 0..MaxN.           *)

MaxLines == 4
MaxN     == 3

PromptHi == << "h","i"," "," ","y","o","u" >>     \* normalises to "hi you"
PromptOk == << " ","o","k","\n" >>                \* normalises to "ok"

SessionLineSamples ==
    { InvalidJsonLine,
      NonObjectLine,
      ObjectLine("assistant", FALSE, "dict", "assistant", TRUE, PromptOk),
      ObjectLine("user", TRUE, "dict", "user", TRUE, PromptOk),
      ObjectLine("user", FALSE, "dict", "user", FALSE, << >>),
      UserLine(<< "<","t","a","s","k","-","i","d",">","7" >>),
      UserLine(<< "<","a",">","x" >>),
      UserLine(PromptHi),
      UserLine(PromptOk) }

RECURSIVE SeqsUpTo(_, _)
SeqsUpTo(S, n) ==
    IF n = 0 THEN { << >> }
    ELSE LET shorter == SeqsUpTo(S, n - 1)
         IN  shorter \cup { Append(t, x) : t \in shorter, x \in S }

ExtractInit ==
    /\ sessionLines \in SeqsUpTo(SessionLineSamples, MaxLines)
    /\ maxPrompts \in 0..MaxN
    /\ extracted = NotRun

ExtractSession ==
    /\ extracted = NotRun
    /\ extracted' = extract_prompts_from_session(TRUE, sessionLines, maxPrompts)
    /\ UNCHANGED << sessionLines, maxPrompts >>

ExtractIdle == sessionLines = << >> /\ maxPrompts = 0 /\ extracted = NotRun

----------------------------------------------------------------------------
(* get_today_sessions (HistoryScanner).                                    *)
(*                                                                         *)
(* A history line is modelled by what json.loads makes of it, as above.    *)
(* An object's "timestamp" is one of                                       *)
(*   kind = "ms"          a number of milliseconds that fromtimestamp takes*)
(*   kind = "missing"     absent, null or otherwise falsy                  *)
(*   kind = "nonnumeric"  a string, list or object: `/ 1000` is a TypeError*)
(*   kind = "year"        fromtimestamp raises ValueError (year > 9999)    *)
(*   kind = "localtime"   fromtimestamp raises OSError (localtime fails)   *)
(*   kind = "time_t"      fromtimestamp raises OverflowError               *)
(* "project" is text and "sessionId" a string; the empty one stands for an *)
(* absent or falsy field.                                                   *)

MAX_SESSIONS_PER_PROJECT == 3

MsPerDay == 24 * 60 * 60 * 1000

\* the local zone's offset from UTC
UtcOffsetMs == 9 * 60 * 60 * 1000

\* datetime.fromtimestamp(timestamp_ms / 1000): a local date and a time of day
fromtimestamp(ms) ==
    [date |-> (ms + UtcOffsetMs) \div MsPerDay, tod |-> (ms + UtcOffsetMs) % MsPerDay]

\* dt > other, on datetimes
DtGreater(dt, other) ==
    dt.date > other.date \/ (dt.date = other.date /\ dt.tod > other.tod)

SessionInfo(session_id, project_path, last_updated, prompts) ==
    [session_id |-> session_id, project_path |-> project_path,
     last_updated |-> last_updated, prompts |-> prompts]

\* line 225: all([timestamp_ms, project, session_id])
HasRequiredFields(data) ==
    /\ data.timestamp.kind # "missing"
    /\ ~(data.timestamp.kind = "ms" /\ data.timestamp.ms = 0)
    /\ data.project # << >>
    /\ data.sessionId # ""

\* line 235 with the dates compared by order
IsTodayOrLater(dt, day) == dt.date >= day

\* line 235: the record is dated today
IsToday(dt, day) == dt.date = day

\* line 239: the record replaces what is held for its session id
Supersedes(dt, held) == DtGreater(dt, held.last_updated)

\* the index of session_id in the insertion-ordered dict, or 0
IndexOfSession(all_sessions, session_id) ==
    IF \E i \in 1..Len(all_sessions) : all_sessions[i].session_id = session_id
    THEN CHOOSE i \in 1..Len(all_sessions) : all_sessions[i].session_id = session_id
    ELSE 0

\* lines 239-245: a dict keeps a replaced key at its place
Remember(all_sessions, data, dt) ==
    LET i    == IndexOfSession(all_sessions, data.sessionId)
        info == SessionInfo(data.sessionId, data.project, dt, << >>)
    IN  IF i = 0 THEN Append(all_sessions, info)
        ELSE IF Supersedes(dt, all_sessions[i]) THEN [all_sessions EXCEPT ![i] = info]
        ELSE all_sessions

ScanState(status, all_sessions) == [status |-> status, all_sessions |-> all_sessions]

\* lines 213-247: the loop over the history lines.  An OSError raised inside
\* the loop is caught by the handler around it (line 246): the loop ends and
\* what was collected so far is kept.  Any other exception that the inner
\* handlers do not name leaves the function.
RECURSIVE ScanFrom(_, _, _, _)
ScanFrom(lines, i, all_sessions, day) ==
    IF i > Len(lines) THEN ScanState("ok", all_sessions)
    ELSE LET data == lines[i]
         IN  IF data.json = "invalid" THEN ScanFrom(lines, i + 1, all_sessions, day)
             ELSE IF data.json = "value" THEN ScanState("raise", all_sessions)
             ELSE IF ~HasRequiredFields(data) THEN ScanFrom(lines, i + 1, all_sessions, day)
             ELSE IF data.timestamp.kind \in {"nonnumeric", "year"}
                  THEN ScanFrom(lines, i + 1, all_sessions, day)
             ELSE IF data.timestamp.kind = "localtime" THEN ScanState("ok", all_sessions)
             ELSE IF data.timestamp.kind = "time_t" THEN ScanState("raise", all_sessions)
             ELSE LET dt == fromtimestamp(data.timestamp.ms)
                  IN  IF ~IsToday(dt, day) THEN ScanFrom(lines, i + 1, all_sessions, day)
                      ELSE ScanFrom(lines, i + 1, Remember(all_sessions, data, dt), day)

\* lines 250-255: group by project, projects in order of first appearance
RECURSIVE GroupFrom(_, _, _)
GroupFrom(all_sessions, i, project_sessions) ==
    IF i > Len(all_sessions) THEN project_sessions
    ELSE LET session == all_sessions[i]
             known   == \E k \in 1..Len(project_sessions) :
                            project_sessions[k].project = session.project_path
             k0      == CHOOSE k \in 1..Len(project_sessions) :
                            project_sessions[k].project = session.project_path
         IN  GroupFrom(all_sessions, i + 1,
                 IF known
                 THEN [project_sessions EXCEPT
                         ![k0].sessions = Append(project_sessions[k0].sessions, session)]
                 ELSE Append(project_sessions,
                             [project |-> session.project_path, sessions |-> << session >>]))

\* list.sort(key=last_updated, reverse=True): stable, so sessions that share a
\* timestamp keep their order
RECURSIVE InsertDescending(_, _)
InsertDescending(sorted, session) ==
    IF sorted = << >> THEN << session >>
    ELSE IF DtGreater(session.last_updated, Head(sorted).last_updated)
         THEN << session >> \o sorted
         ELSE << Head(sorted) >> \o InsertDescending(Tail(sorted), session)

RECURSIVE SortDescending(_)
SortDescending(sessions) ==
    IF sessions = << >> THEN << >>
    ELSE InsertDescending(SortDescending(SubSeq(sessions, 1, Len(sessions) - 1)),
                          sessions[Len(sessions)])

\* line 260: [:MAX_SESSIONS_PER_PROJECT]
Cap(sessions) == SubSeq(sessions, 1, Min(Len(sessions), MAX_SESSIONS_PER_PROJECT))

SortAndCap(project_sessions) ==
    [k \in 1..Len(project_sessions) |->
        [project  |-> project_sessions[k].project,
         sessions |-> Cap(SortDescending(project_sessions[k].sessions))]]

ScanOutcome(status, project_sessions) ==
    [status |-> status, project_sessions |-> project_sessions]
NotScanned == ScanOutcome("pending", << >>)

get_today_sessions(exists, lines, day) ==
    IF ~exists THEN ScanOutcome("ok", << >>)
    ELSE LET scan == ScanFrom(lines, 1, << >>, day)
         IN  IF scan.status = "raise" THEN ScanOutcome("raise", << >>)
             ELSE ScanOutcome("ok", SortAndCap(GroupFrom(scan.all_sessions, 1, << >>)))

----------------------------------------------------------------------------
(* SpecScan: get_today_sessions on every history log of at most MaxHist    *)
(* sample lines, scanned on BaseDay or on the day after.                   *)

MaxHist == 4

\* the day the sample records are dated around, in days since the epoch
BaseDay == 10

DayStart(d) == d * MsPerDay - UtcOffsetMs

YesterdayLast == DayStart(BaseDay) - 1
TodayFirst    == DayStart(BaseDay)
TodayMid      == DayStart(BaseDay) + MsPerDay \div 2
TodayLast     == DayStart(BaseDay + 1) - 1
TomorrowFirst == DayStart(BaseDay + 1)

Timestamp(kind, ms) == [kind |-> kind, ms |-> ms]

HistoryLine(json, timestamp, project, sessionId) ==
    [json |-> json, timestamp |-> timestamp, project |-> project, sessionId |-> sessionId]

Record(ms, project, sessionId) ==
    HistoryLine("object", Timestamp("ms", ms), project, sessionId)

InvalidJsonRecord == HistoryLine("invalid", Timestamp("missing", 0), << >>, "")
NonObjectRecord   == HistoryLine("value", Timestamp("missing", 0), << >>, "")

P1 == << "p", "1" >>
P2 == << "p", "2" >>

HistorySamples ==
    { InvalidJsonRecord,
      NonObjectRecord,
      HistoryLine("object", Timestamp("localtime", 0), P1, "s2"),
      Record(YesterdayLast, P1, "s1"),
      Record(TodayFirst,    P1, "s1"),
      Record(TodayLast,     P1, "s1"),
      Record(TodayMid,      P2, "s1"),
      Record(TomorrowFirst, P1, "s1"),
      Record(TodayFirst,    P1, "s2"),
      Record(TodayLast,     P2, "s2"),
      Record(TodayMid,      P1, "s3"),
      Record(TodayLast,     P1, "s4") }

ScanInit ==
    /\ history \in SeqsUpTo(HistorySamples, MaxHist)
    /\ today \in {BaseDay, BaseDay + 1}
    /\ scanned = NotScanned

ScanHistory ==
    /\ scanned = NotScanned
    /\ scanned' = get_today_sessions(TRUE, history, today)
    /\ UNCHANGED << history, today >>

ScanIdle == history = << >> /\ today = 0 /\ scanned = NotScanned

----------------------------------------------------------------------------
(* format_markdown (Renderer).                                             *)
(*                                                                         *)
(* The sessions mapping is a dict: a sequence of (project, sessions)       *)
(* entries in insertion order.  The document is its sequence of lines,     *)
(* each a record of its kind and what it shows.                            *)

UpperSeq == << "A","B","C","D","E","F","G","H","I","J","K","L","M",
               "N","O","P","Q","R","S","T","U","V","W","X","Y","Z" >>
LowerSeq == << "a","b","c","d","e","f","g","h","i","j","k","l","m",
               "n","o","p","q","r","s","t","u","v","w","x","y","z" >>
DigitSeq == << "0","1","2","3","4","5","6","7","8","9" >>

IndexIn(seq, c) == CHOOSE i \in 1..Len(seq) : seq[i] = c

\* ord(c)
CodePoint(c) ==
    IF c \in Uppercase THEN 64 + IndexIn(UpperSeq, c)
    ELSE IF c \in Lowercase THEN 96 + IndexIn(LowerSeq, c)
    ELSE IF c \in Digits THEN 47 + IndexIn(DigitSeq, c)
    ELSE CASE c = " "  -> 32
           [] c = "-"  -> 45
           [] c = "."  -> 46
           [] c = "/"  -> 47
           [] c = ":"  -> 58
           [] c = "<"  -> 60
           [] c = ">"  -> 62
           [] c = "\\" -> 92
           [] c = "_"  -> 95
           [] OTHER    -> 0

\* str.lower()
lower(text) ==
    [i \in 1..Len(text) |->
        IF text[i] \in Uppercase THEN LowerSeq[IndexIn(UpperSeq, text[i])] ELSE text[i]]

\* a < b on str: by code point, a proper prefix first
StrLess(a, b) ==
    \/ \E i \in 1..Min(Len(a), Len(b)) :
          /\ SubSeq(a, 1, i - 1) = SubSeq(b, 1, i - 1)
          /\ CodePoint(a[i]) < CodePoint(b[i])
    \/ Len(a) < Len(b) /\ SubSeq(b, 1, Len(a)) = a

\* line 312 without .lower()
SortKeyCaseSensitive(project) == project

\* line 312: key=lambda item: item[0].lower()
SortKey(project) == lower(project)

\* sorted(...): stable, so entries with equal keys keep their order
RECURSIVE InsertAscending(_, _)
InsertAscending(sorted, item) ==
    IF sorted = << >> THEN << item >>
    ELSE IF StrLess(SortKey(item.project), SortKey(Head(sorted).project))
         THEN << item >> \o sorted
         ELSE << Head(sorted) >> \o InsertAscending(Tail(sorted), item)

RECURSIVE SortProjects(_)
SortProjects(items) ==
    IF items = << >> THEN << >>
    ELSE InsertAscending(SortProjects(SubSeq(items, 1, Len(items) - 1)),
                         items[Len(items)])

Line(kind, text, n) == [kind |-> kind, text |-> text, n |-> n]

\* strftime('%H:%M'), as minutes since midnight
HourMinute(dt) == dt.tod \div (60 * 1000)

\* lines 321-330: one session
SessionLines(session) ==
    << Line("session_time", << >>, HourMinute(session.last_updated)),
       Line("prompts_label", << >>, 0) >>
    \o (IF session.prompts # << >>
        THEN [i \in 1..Len(session.prompts) |-> Line("prompt", session.prompts[i], i)]
        ELSE << Line("no_prompts", << >>, 1) >>)
    \o << Line("blank", << >>, 0) >>

RECURSIVE SessionsLines(_)
SessionsLines(session_list) ==
    IF session_list = << >> THEN << >>
    ELSE SessionLines(Head(session_list)) \o SessionsLines(Tail(session_list))

\* lines 315-330: the sections, one per project
RECURSIVE SectionsLines(_)
SectionsLines(sorted_projects) ==
    IF sorted_projects = << >> THEN << >>
    ELSE << Line("rule", << >>, 0), Line("blank", << >>, 0),
            Line("heading", Head(sorted_projects).project, 0) >>
         \o SessionsLines(Head(sorted_projects).sessions)
         \o SectionsLines(Tail(sorted_projects))

\* `now` is datetime.now(), shown in the header
format_markdown(sessions, now) ==
    << Line("title", << >>, 0), Line("blank", << >>, 0),
       Line("rendered_at", << >>, now), Line("blank", << >>, 0) >>
    \o (IF sessions = << >>
        THEN << Line("no_sessions", << >>, 0) >>
        ELSE SectionsLines(SortProjects(sessions)))

\* the projects of the document's section headings, top to bottom
SectionOrder(doc) ==
    LET headings == SelectSeq(doc, LAMBDA l : l.kind = "heading")
    IN  [i \in 1..Len(headings) |-> headings[i].text]

----------------------------------------------------------------------------
(* SpecFormat: format_markdown on every mapping of at most MaxProjects     *)
(* sample projects, and on the same mapping built in every key order.      *)

MaxProjects == 3

ProjectIdSamples ==
    { << "A" >>, << "a" >>, << "B" >>, << "A", "b" >>, << "a", "C" >> }

SessionListSamples ==
    { << SessionInfo("s1", << >>, fromtimestamp(TodayMid), << PromptHi >>) >>,
      << SessionInfo("s2", << >>, fromtimestamp(TodayLast), << >>),
         SessionInfo("s3", << >>, fromtimestamp(TodayFirst), << PromptOk, PromptHi >>) >> }

Entries == [project : ProjectIdSamples, sessions : SessionListSamples]

\* dicts: no project twice
Mappings ==
    { m \in SeqsUpTo(Entries, MaxProjects) :
        \A i, j \in 1..Len(m) : m[i].project = m[j].project => i = j }

\* the same entries in any key order
Reorderings(m) ==
    { [i \in 1..Len(m) |-> m[f[i]]] :
        f \in { g \in [1..Len(m) -> 1..Len(m)] : \A i, j \in 1..Len(m) : g[i] = g[j] => i = j } }

FormatInit ==
    /\ mappingA \in Mappings
    /\ mappingB \in Reorderings(mappingA)
    /\ docA = << >>
    /\ docB = << >>

FormatBoth ==
    /\ docA = << >>
    /\ docA' = format_markdown(mappingA, HourMinute(fromtimestamp(TodayMid)))
    /\ docB' = format_markdown(mappingB, HourMinute(fromtimestamp(TodayMid)))
    /\ UNCHANGED << mappingA, mappingB >>

FormatIdle == mappingA = << >> /\ mappingB = << >> /\ docA = << >> /\ docB = << >>

----------------------------------------------------------------------------
(* SessionCache and load_session_prompts.                                  *)
(*                                                                         *)
(* A session file is PROJECTS_DIR / dir / (stem + ".jsonl"), modelled as   *)
(* the record [dir, stem].  The file system maps every file to whether it  *)
(* exists, its st_mtime and its lines.  The cache maps a key to an entry;  *)
(* an absent key is an entry with present = FALSE.                         *)

MAX_PROMPTS_PER_SESSION == 3

File(dir, stem) == [dir |-> dir, stem |-> stem]

CacheEntry(mtime, prompts) == [present |-> TRUE, mtime |-> mtime, prompts |-> prompts]
NoEntry == [present |-> FALSE, mtime |-> 0, prompts |-> << >>]

\* line 70: session_id = session_file.stem
CacheKey(session_file) == session_file.stem

\* the comparison of line 79 inverted
CacheHitInverted(c, key, current_mtime) ==
    c[key].present /\ c[key].mtime # current_mtime

\* lines 77-79: an entry is held for the key and its mtime is the current one
CacheHit(c, key, current_mtime) ==
    c[key].present /\ c[key].mtime = current_mtime

\* lines 68-84.  The result: what is returned, the cache afterwards, and
\* whether extract_prompts_from_session was invoked.
get_prompts(c, files, session_file, max_prompts) ==
    LET session_id == CacheKey(session_file)
        st         == files[session_file]
    IN  IF ~st.exists                                   \* stat(): OSError
        THEN [status |-> "ok", prompts |-> << >>, cache |-> c, extracted |-> FALSE]
        ELSE IF CacheHit(c, session_id, st.mtime)
        THEN [status |-> "ok", prompts |-> c[session_id].prompts, cache |-> c,
              extracted |-> FALSE]
        ELSE LET got == extract_prompts_from_session(TRUE, st.lines, max_prompts)
             IN  IF got.status = "raise"
                 THEN [status |-> "raise", prompts |-> << >>, cache |-> c,
                       extracted |-> TRUE]
                 ELSE [status |-> "ok", prompts |-> got.prompts,
                       cache |-> [c EXCEPT ![session_id] = CacheEntry(st.mtime, got.prompts)],
                       extracted |-> TRUE]

\* lines 190-196
project_path_to_dir_name(project_path) ==
    [i \in 1..Len(project_path) |->
        IF project_path[i] \in {":", "\\", "/", " ", "_"} THEN "-" ELSE project_path[i]]

\* lines 275-286: the file load_session_prompts hands to the cache for a
\* session.  The derived directory's file if it exists; otherwise the file of
\* that name in the first directory that has one, in the order iterdir()
\* yields them (dir_order: any order).  iterdir() raises when PROJECTS_DIR
\* does not exist.
Resolution(status, file) == [status |-> status, file |-> file]

RECURSIVE FirstWith(_, _, _, _)
FirstWith(files, dir_order, i, session_id) ==
    IF i > Len(dir_order) THEN Resolution("none", File(<< >>, ""))
    ELSE IF files[File(dir_order[i], session_id)].exists
         THEN Resolution("found", File(dir_order[i], session_id))
         ELSE FirstWith(files, dir_order, i + 1, session_id)

ResolveFile(files, projects_dir_exists, dir_order, project_path, session_id) ==
    LET session_file == File(project_path_to_dir_name(project_path), session_id)
    IN  IF /\ projects_dir_exists
           /\ session_file \in DOMAIN files
           /\ files[session_file].exists
        THEN Resolution("found", session_file)
        ELSE IF ~projects_dir_exists THEN Resolution("raise", File(<< >>, ""))
        ELSE FirstWith(files, dir_order, 1, session_id)

\* lines 270-286, for the sessions of one project from the j-th on; the
\* cache is threaded through the calls
LoadOutcome(status, sessions, c) == [status |-> status, sessions |-> sessions, cache |-> c]

\* lines 275-286 for one session: `found` is its resolved file and `got`
\* what get_prompts returns for it
AttachPrompts(c, session, found, got) ==
    IF found.status = "raise" THEN LoadOutcome("raise", session, c)
    ELSE IF found.status = "none" THEN LoadOutcome("ok", session, c)
    ELSE IF got.status = "raise" THEN LoadOutcome("raise", session, c)
    ELSE LoadOutcome("ok", [session EXCEPT !.prompts = got.prompts], got.cache)

LoadSession(c, files, projects_dir_exists, dir_order, session, found) ==
    AttachPrompts(c, session, found,
        IF found.status = "found"
        THEN get_prompts(c, files, found.file, MAX_PROMPTS_PER_SESSION)
        ELSE [status |-> "ok", prompts |-> << >>, cache |-> c, extracted |-> FALSE])

\* lines 269-288 over the sessions of the mapping in iteration order: `flat`
\* lists them as (k, j), the j-th session of the k-th project
RECURSIVE LoadFrom(_, _, _, _, _, _, _)
LoadNext(c, files, projects_dir_exists, dir_order, sessions, flat, n, one) ==
    IF one.status = "raise" THEN LoadOutcome("raise", sessions, one.cache)
    ELSE LoadFrom(one.cache, files, projects_dir_exists, dir_order,
                  [sessions EXCEPT ![flat[n][1]].sessions[flat[n][2]] = one.sessions],
                  flat, n + 1)

LoadFrom(c, files, projects_dir_exists, dir_order, sessions, flat, n) ==
    IF n > Len(flat) THEN LoadOutcome("ok", sessions, c)
    ELSE LoadNext(c, files, projects_dir_exists, dir_order, sessions, flat, n,
             LoadSession(c, files, projects_dir_exists, dir_order,
                 sessions[flat[n][1]].sessions[flat[n][2]],
                 ResolveFile(files, projects_dir_exists, dir_order,
                     sessions[flat[n][1]].sessions[flat[n][2]].project_path,
                     sessions[flat[n][1]].sessions[flat[n][2]].session_id)))

\* the (k, j) of every session of the mapping, in iteration order
RECURSIVE Flatten(_, _)
Flatten(sessions, k) ==
    IF k > Len(sessions) THEN << >>
    ELSE [j \in 1..Len(sessions[k].sessions) |-> << k, j >>] \o Flatten(sessions, k + 1)

load_session_prompts(c, files, projects_dir_exists, dir_order, sessions) ==
    LoadFrom(c, files, projects_dir_exists, dir_order, sessions, Flatten(sessions, 1), 1)

\* lines 335-355.  mkdir and mkstemp run before the try block: their failure
\* leaves the function.  A failure of the write or of the move is caught by
\* `except Exception` and logged.  The result: "written", "kept" (the
\* document on disk is the earlier one) or "raise".
write_output(failure) ==
    IF failure \in {"mkdir", "mkstemp"} THEN "raise"
    ELSE IF failure \in {"write", "move"} THEN "kept"
    ELSE "written"

\* lines 361-376.  The result: how the cycle ended, the mapping it rendered,
\* the document and the cache afterwards.
CycleOutcome(status, sessions, doc, c) ==
    [status |-> status, sessions |-> sessions, doc |-> doc, cache |-> c]

\* lines 375-376
RenderAndWrite(in, loaded) ==
    IF loaded.status = "raise" THEN CycleOutcome("raise", << >>, << >>, loaded.cache)
    ELSE CycleOutcome(write_output(in.write_failure), loaded.sessions,
                      format_markdown(loaded.sessions, in.now), loaded.cache)

\* line 372
LoadAndRender(c, files, in, found) ==
    IF found.status = "raise" THEN CycleOutcome("raise", << >>, << >>, c)
    ELSE RenderAndWrite(in,
             load_session_prompts(c, files, in.projects_dir_exists, in.dir_order,
                                  found.project_sessions))

update_workspace_status(c, files, in) ==
    LoadAndRender(c, files, in,
        get_today_sessions(in.history_exists, in.history, in.today))

----------------------------------------------------------------------------
(* SpecCache and SpecCacheLife: one SessionCache over its lifetime.  The   *)
(* environment writes, touches and deletes session files; the process      *)
(* calls get_prompts, either directly or from load_session_prompts.  A     *)
(* write that changes a file's lines also changes its st_mtime; st_mtime   *)
(* may otherwise take any value in 1..MaxMtime, also an earlier one        *)
(* (utime, a restored file).                                               *)
(*                                                                         *)
(* SpecCache records what each call saw and did (lastCall, entryFile);     *)
(* SpecCacheLife records the extractions of the whole lifetime             *)
(* (extractedPairs, repeated, sinceStore).                                 *)

MaxMtime == 2

DirAB == << "a", "-", "b" >>
DirC  == << "c" >>
Dirs  == { DirAB, DirC }
DirOrders == { << DirAB, DirC >>, << DirC, DirAB >> }
Stems == { "s1" }
Files == { File(d, st) : d \in Dirs, st \in Stems }
NoFile == File(<< >>, "")

\* projects whose derived directory is DirAB, is DirC, or does not exist
ProjectSamples == { << "a", "_", "b" >>, << "c" >>, << "x" >> }

ContentSamples ==
    { << UserLine(PromptHi) >>,
      << UserLine(PromptOk), InvalidJsonLine, UserLine(PromptHi) >> }

FileState(exists, mtime, lines) == [exists |-> exists, mtime |-> mtime, lines |-> lines]

NoCall ==
    [called |-> FALSE, viaLoad |-> FALSE, file |-> NoFile, statOk |-> FALSE,
     hit |-> FALSE, entryFrom |-> NoFile, ownEntry |-> FALSE,
     held |-> << >>, stored |-> FALSE, returned |-> << >>, fresh |-> << >>]

CacheInit ==
    /\ fs \in [Files -> { FileState(e, m, l) :
                            e \in BOOLEAN, m \in 1..MaxMtime, l \in ContentSamples }]
    /\ cache = [k \in Stems |-> NoEntry]
    /\ lastCall = NoCall
    /\ entryFile = [k \in Stems |-> NoFile]
    /\ extractedPairs = { }
    /\ repeated = FALSE
    /\ sinceStore = [k \in Stems |-> 0]

\* What lastCall keeps of get_prompts(session_file, ...) with result r.
CallRecord(session_file, viaLoad, r) ==
    LET key == CacheKey(session_file)
        st  == fs[session_file]
    IN  [called    |-> TRUE,
         viaLoad   |-> viaLoad,
         file      |-> session_file,
         statOk    |-> st.exists,
         hit       |-> st.exists /\ ~r.extracted,
         entryFrom |-> entryFile[key],
         ownEntry  |-> /\ cache[key].present
                       /\ entryFile[key] = session_file
                       /\ cache[key].mtime = st.mtime,
         held      |-> cache[key].prompts,
         stored    |-> r.cache[key] = CacheEntry(st.mtime, r.prompts),
         returned  |-> r.prompts,
         fresh     |-> extract_prompts_from_session(
                           st.exists, st.lines, MAX_PROMPTS_PER_SESSION).prompts]

\* One get_prompts(session_file, MAX_PROMPTS_PER_SESSION) call, recorded in
\* lastCall and entryFile.
Call(session_file, viaLoad) ==
    LET key == CacheKey(session_file)
        r   == get_prompts(cache, fs, session_file, MAX_PROMPTS_PER_SESSION)
    IN  /\ cache' = r.cache
        /\ lastCall' = CallRecord(session_file, viaLoad, r)
        /\ entryFile' = IF r.extracted THEN [entryFile EXCEPT ![key] = session_file]
                        ELSE entryFile
        /\ UNCHANGED << fs, lifeVars >>

\* The same call, recorded in extractedPairs, repeated and sinceStore.
CountedCall(session_file) ==
    LET key  == CacheKey(session_file)
        st   == fs[session_file]
        pair == << session_file, st.mtime >>
        r    == get_prompts(cache, fs, session_file, MAX_PROMPTS_PER_SESSION)
    IN  /\ cache' = r.cache
        /\ extractedPairs' = IF r.extracted THEN extractedPairs \cup { pair }
                             ELSE extractedPairs
        /\ repeated' = (repeated \/ (r.extracted /\ pair \in extractedPairs))
        /\ sinceStore' =
              IF ~r.extracted THEN sinceStore
              ELSE [sinceStore EXCEPT ![key] =
                      IF cache[key].present /\ cache[key].mtime = st.mtime
                      THEN Min(@ + 1, 2) ELSE 1]
        /\ UNCHANGED << fs, callVars >>

NotCache == << filterVars, extractVars, scanVars, formatVars, cycleVars >>

\* a direct call of the method, on any path
GetPrompts(session_file) == Call(session_file, FALSE) /\ UNCHANGED NotCache

\* lines 269-286, for one session of the mapping
LoadSessionPrompts(project_path, session_id) ==
    /\ \E dir_order \in DirOrders :
          LET found == ResolveFile(fs, TRUE, dir_order, project_path, session_id)
          IN  found.status = "found" /\ Call(found.file, TRUE)
    /\ UNCHANGED NotCache

GetPromptsCounted(session_file) == CountedCall(session_file) /\ UNCHANGED NotCache

LoadSessionPromptsCounted(project_path, session_id) ==
    /\ \E dir_order \in DirOrders :
          LET found == ResolveFile(fs, TRUE, dir_order, project_path, session_id)
          IN  found.status = "found" /\ CountedCall(found.file)
    /\ UNCHANGED NotCache

WriteFile(f, mtime, lines) ==
    /\ FileState(TRUE, mtime, lines) # fs[f]
    /\ lines # fs[f].lines => mtime # fs[f].mtime
    /\ fs' = [fs EXCEPT ![f] = FileState(TRUE, mtime, lines)]
    /\ UNCHANGED << cache, callVars, lifeVars, NotCache >>

DeleteFile(f) ==
    /\ fs[f].exists
    /\ fs' = [fs EXCEPT ![f].exists = FALSE]
    /\ UNCHANGED << cache, callVars, lifeVars, NotCache >>

\* lines 86-88
Clear ==
    /\ \E k \in Stems : cache[k].present
    /\ cache' = [k \in Stems |-> NoEntry]
    /\ entryFile' = [k \in Stems |-> NoFile]
    /\ sinceStore' = [k \in Stems |-> 0]
    /\ UNCHANGED << fs, lastCall, extractedPairs, repeated, NotCache >>

CacheIdle ==
    /\ fs = << >> /\ cache = << >> /\ lastCall = NoCall /\ entryFile = << >>
    /\ extractedPairs = { } /\ repeated = FALSE /\ sinceStore = << >>

----------------------------------------------------------------------------
(* SpecCycle: main().  The process checks CLAUDE_DIR, then polls: each     *)
(* cycle is one update_workspace_status() on what it finds on disk (the    *)
(* history log, the projects directory, the session files, whether the     *)
(* output can be written), followed by a sleep.  KeyboardInterrupt ends    *)
(* the loop; any other exception that leaves update_workspace_status()     *)
(* leaves main() and ends the process.                                     *)

MaxCycles    == 2
MaxCycleHist == 2

ProjectAB == << "a", "_", "b" >>
ProjectX  == << "x" >>

CycleHistorySamples ==
    { NonObjectRecord,
      HistoryLine("object", Timestamp("time_t", 0), ProjectAB, "s1"),
      Record(TodayMid, ProjectAB, "s1"),
      Record(TodayLast, ProjectX, "s1") }

CycleContentSamples == ContentSamples \cup { << UserLine(PromptOk), NonObjectLine >> }

CycleInputs ==
    [history_exists      : BOOLEAN,
     history             : SeqsUpTo(CycleHistorySamples, MaxCycleHist),
     today               : { BaseDay },
     projects_dir_exists : BOOLEAN,
     dir_order           : DirOrders,
     write_failure       : { "none", "mkdir", "move" },
     now                 : { HourMinute(fromtimestamp(TodayLast)) }]

NoInput ==
    [history_exists |-> FALSE, history |-> << >>, today |-> 0,
     projects_dir_exists |-> FALSE, dir_order |-> << >>, write_failure |-> "none",
     now |-> 0]

NotCycle == << filterVars, extractVars, scanVars, formatVars, callVars, lifeVars >>

CycleInit ==
    /\ pc = "starting"
    /\ cycleIn = NoInput
    /\ cycleSessions = CycleOutcome("none", << >>, << >>, << >>)
    /\ cycles = 0
    /\ fs \in [Files -> { FileState(e, 1, l) : e \in BOOLEAN, l \in CycleContentSamples }]
    /\ cache = [k \in Stems |-> NoEntry]
    /\ lastCall = NoCall /\ entryFile = << >>
    /\ extractedPairs = { } /\ repeated = FALSE /\ sinceStore = << >>

\* lines 388-390
Start(claude_dir_exists) ==
    /\ pc = "starting"
    /\ pc' = IF claude_dir_exists THEN "polling" ELSE "exited"
    /\ UNCHANGED << cycleIn, cycleSessions, cycles, fs, cache, NotCycle >>

\* line 394: one polling cycle, on the input `in`
Poll(in) ==
    /\ pc = "polling"
    /\ cycles < MaxCycles
    /\ cycleIn' = in
    /\ cycleSessions' = [update_workspace_status(cache, fs, in) EXCEPT !.cache = << >>]
    /\ cache' = update_workspace_status(cache, fs, in).cache
    /\ pc' = IF cycleSessions'.status = "raise" THEN "crashed" ELSE "sleeping"
    /\ cycles' = cycles + 1
    /\ UNCHANGED << fs, NotCycle >>

\* line 395: the sleep ends; nothing of the cycle but the cache is kept
Wake ==
    /\ pc = "sleeping"
    /\ pc' = "polling"
    /\ cycleIn' = NoInput
    /\ cycleSessions' = CycleOutcome("none", << >>, << >>, << >>)
    /\ UNCHANGED << cycles, fs, cache, NotCycle >>

\* lines 396-399: KeyboardInterrupt, in a cycle or in the sleep
Interrupt ==
    /\ pc \in {"polling", "sleeping"}
    /\ pc' = "stopped"
    /\ UNCHANGED << cycleIn, cycleSessions, cycles, fs, cache, NotCycle >>

CycleIdle ==
    /\ pc = "idle" /\ cycleIn = NoInput
    /\ cycleSessions = CycleOutcome("none", << >>, << >>, << >>) /\ cycles = 0

----------------------------------------------------------------------------
(* The specifications.                                                     *)

SpecFilterInit == FilterInit /\ ExtractIdle /\ ScanIdle /\ FormatIdle /\ CacheIdle /\ CycleIdle
FilterNext     == ParseLine /\ UNCHANGED << extractVars, scanVars, formatVars, cacheVars, cycleVars >>
SpecFilter     == SpecFilterInit /\ [][FilterNext]_vars

SpecExtractInit == ExtractInit /\ FilterIdle /\ ScanIdle /\ FormatIdle /\ CacheIdle /\ CycleIdle
ExtractNext     == ExtractSession /\ UNCHANGED << filterVars, scanVars, formatVars, cacheVars, cycleVars >>
SpecExtract     == SpecExtractInit /\ [][ExtractNext]_vars

SpecScanInit == ScanInit /\ FilterIdle /\ ExtractIdle /\ FormatIdle /\ CacheIdle /\ CycleIdle
ScanNext     == ScanHistory /\ UNCHANGED << filterVars, extractVars, formatVars, cacheVars, cycleVars >>
SpecScan     == SpecScanInit /\ [][ScanNext]_vars

SpecFormatInit == FormatInit /\ FilterIdle /\ ExtractIdle /\ ScanIdle /\ CacheIdle /\ CycleIdle
FormatNext     == FormatBoth /\ UNCHANGED << filterVars, extractVars, scanVars, cacheVars, cycleVars >>
SpecFormat     == SpecFormatInit /\ [][FormatNext]_vars

SpecCacheInit == CacheInit /\ FilterIdle /\ ExtractIdle /\ ScanIdle /\ FormatIdle /\ CycleIdle

CacheNext ==
    \/ \E f \in Files : GetPrompts(f)
    \/ \E p \in ProjectSamples, sid \in Stems : LoadSessionPrompts(p, sid)
    \/ \E f \in Files, m \in 1..MaxMtime, l \in ContentSamples : WriteFile(f, m, l)
    \/ \E f \in Files : DeleteFile(f)
    \/ Clear
SpecCache == SpecCacheInit /\ [][CacheNext]_vars

CacheLifeNext ==
    \/ \E f \in Files : GetPromptsCounted(f)
    \/ \E p \in ProjectSamples, sid \in Stems : LoadSessionPromptsCounted(p, sid)
    \/ \E f \in Files, m \in 1..MaxMtime, l \in ContentSamples : WriteFile(f, m, l)
    \/ \E f \in Files : DeleteFile(f)
SpecCacheLife == SpecCacheInit /\ [][CacheLifeNext]_vars

SpecCycleInit == CycleInit /\ FilterIdle /\ ExtractIdle /\ ScanIdle /\ FormatIdle

CycleNext ==
    \/ \E e \in BOOLEAN : Start(e)
    \/ \E in \in CycleInputs : Poll(in)
    \/ Wake
    \/ Interrupt
SpecCycle == SpecCycleInit /\ [][CycleNext]_vars

----------------------------------------------------------------------------
(* The claims.                                                             *)

\* ---- SessionCache (SpecCache, SpecCacheLife)

\* C1: a get_prompts call on a stat-able file returns the stored prompts
\* without extracting if and only if an entry exists for that file's identity
\* whose stored mtime equals the file's current one; in every other case it
\* extracts, stores (current mtime, result) and returns the result.
C1_HitIffOwnEntryCurrent ==
    (lastCall.called /\ lastCall.statOk) =>
        /\ lastCall.hit <=> lastCall.ownEntry
        /\ lastCall.hit => lastCall.returned = lastCall.held
        /\ ~lastCall.hit => (lastCall.stored /\ lastCall.returned = lastCall.fresh)

\* C2, as stated: over the lifetime of the cache no (file, mtime) pair is
\* extracted twice.
C2_AtMostOncePerFileAndMtime == ~repeated

\* C2, amended: for each cache key (file-name stem), at most one extraction
\* takes place while the key's entry keeps the same stored mtime; a second
\* extraction for the same stem and mtime comes only after an extraction for
\* that stem at another mtime.
C2_AtMostOncePerStoredMtime == \A k \in Stems : sinceStore[k] <= 1

\* a (file, mtime) pair has been extracted twice, one entry at a time
C2_Witness == repeated /\ \E k \in Stems : sinceStore[k] = 1

\* C10: what load_session_prompts attaches to a session equals what
\* extract_prompts_from_session returns at that moment on the file resolved
\* for the session, given that every change of a file's lines changes its
\* mtime; an entry stored for one file is never returned for another file of
\* the same stem.
C10_LoadedEqualsFresh ==
    (lastCall.called /\ lastCall.viaLoad) =>
        /\ lastCall.returned = lastCall.fresh
        /\ lastCall.hit => lastCall.entryFrom = lastCall.file

\* ---- main (SpecCycle)

\* C3: no exception leaves a polling cycle: the process never ends but by the
\* interrupt.
C3_NoExceptionLeavesCycle == pc # "crashed"

\* ---- get_today_sessions (SpecScan)

\* the i-th history line is a record with all fields, dated today
ValidToday(i) ==
    /\ history[i].json = "object"
    /\ HasRequiredFields(history[i])
    /\ history[i].timestamp.kind = "ms"
    /\ fromtimestamp(history[i].timestamp.ms).date = today

RecordDt(i) == fromtimestamp(history[i].timestamp.ms)

ValidTodayOf(sid) == { i \in 1..Len(history) : ValidToday(i) /\ history[i].sessionId = sid }

\* the first of the session's today-dated records that carry its greatest timestamp
LatestOf(sid) ==
    CHOOSE i \in ValidTodayOf(sid) :
        /\ \A j \in ValidTodayOf(sid) : ~DtGreater(RecordDt(j), RecordDt(i))
        /\ \A j \in ValidTodayOf(sid) : RecordDt(j) = RecordDt(i) => i <= j

TodaySessionIds == { history[i].sessionId : i \in { j \in 1..Len(history) : ValidToday(j) } }

\* the deduplicated today-sessions of a project
ProjectSessionIds(project) ==
    { sid \in TodaySessionIds : history[LatestOf(sid)].project = project }

Groups == 1..Len(scanned.project_sessions)
GroupList(k) == scanned.project_sessions[k].sessions

\* C4: in the output every session id occurs in at most one SessionInfo, and
\* that SessionInfo carries the greatest timestamp among the id's valid
\* today-dated history records.
C4_OneLatestRecordPerSession ==
    scanned.status = "ok" =>
        /\ \A k1, k2 \in Groups :
             \A j1 \in 1..Len(GroupList(k1)), j2 \in 1..Len(GroupList(k2)) :
                GroupList(k1)[j1].session_id = GroupList(k2)[j2].session_id
                    => (k1 = k2 /\ j1 = j2)
        /\ \A k \in Groups : \A j \in 1..Len(GroupList(k)) :
             LET info == GroupList(k)[j]
             IN  /\ ValidTodayOf(info.session_id) # { }
                 /\ info.last_updated = RecordDt(LatestOf(info.session_id))

\* C5: every project's list in the output has at most 3 sessions, is ordered
\* by last_updated descending, and consists of the project's deduplicated
\* today-sessions with the greatest timestamps.
C5_TopThreeDescending ==
    scanned.status = "ok" =>
        \A k \in Groups :
            LET list == GroupList(k)
                sids == ProjectSessionIds(scanned.project_sessions[k].project)
            IN  /\ Len(list) <= 3
                /\ \A j \in 1..(Len(list) - 1) :
                      ~DtGreater(list[j+1].last_updated, list[j].last_updated)
                /\ Len(list) = Min(3, Cardinality(sids))
                /\ \A j \in 1..Len(list) :
                      /\ list[j].session_id \in sids
                      /\ list[j].last_updated = RecordDt(LatestOf(list[j].session_id))
                /\ \A sid \in sids :
                      (\A j \in 1..Len(list) : list[j].session_id # sid) =>
                          \A j \in 1..Len(list) :
                              ~DtGreater(RecordDt(LatestOf(sid)), list[j].last_updated)

\* C6: every SessionInfo of the output is dated today, its timestamp and its
\* project are those of a today-dated record of its session id, and every
\* project of the output has a session.
C6_OnlyTodayDated ==
    scanned.status = "ok" =>
        \A k \in Groups :
            /\ Len(GroupList(k)) >= 1
            /\ \A j \in 1..Len(GroupList(k)) :
                 LET info == GroupList(k)[j]
                 IN  /\ info.last_updated.date = today
                     /\ info.project_path = scanned.project_sessions[k].project
                     /\ \E i \in ValidTodayOf(info.session_id) :
                           /\ RecordDt(i) = info.last_updated
                           /\ history[i].project = info.project_path

\* a session with a record today, one on an earlier and one on a later day,
\* is in the output
C6_Witness ==
    /\ scanned.status = "ok"
    /\ \E i, j, l \in 1..Len(history) :
          /\ ValidToday(i)
          /\ history[j].timestamp.kind = "ms" /\ history[l].timestamp.kind = "ms"
          /\ history[j].sessionId = history[i].sessionId
          /\ history[l].sessionId = history[i].sessionId
          /\ RecordDt(j).date < today /\ RecordDt(l).date > today
          /\ \E k \in Groups : \E n \in 1..Len(GroupList(k)) :
                GroupList(k)[n].session_id = history[i].sessionId

\* ---- extract_prompts_from_session (SpecExtract)

\* the texts parse_user_message accepts, in file order
RECURSIVE AcceptedTexts(_)
AcceptedTexts(lines) ==
    IF lines = << >> THEN << >>
    ELSE (IF parse_user_message(Head(lines)).tag = "some"
          THEN << parse_user_message(Head(lines)).text >> ELSE << >>)
         \o AcceptedTexts(Tail(lines))

\* C7: for every readable session file and every N >= 0 the extractor returns
\* exactly the first min(N, k) accepted strings, in file order.
C7_FirstAcceptedInOrder ==
    extracted.status # "pending" =>
        /\ extracted.status = "ok"
        /\ extracted.prompts =
              SubSeq(AcceptedTexts(sessionLines), 1,
                     Min(maxPrompts, Len(AcceptedTexts(sessionLines))))

\* ---- format_markdown (SpecFormat)

AscendingIgnoringCase(order) ==
    \A i \in 1..(Len(order) - 1) : ~StrLess(lower(order[i+1]), lower(order[i]))

NoCaseTwins(m) ==
    \A i, j \in 1..Len(m) : lower(m[i].project) = lower(m[j].project) => i = j

KeyIndex(m, project) == CHOOSE i \in 1..Len(m) : m[i].project = project

\* projects that are equal ignoring case come in the mapping's key order
TwinsInKeyOrder(m, order) ==
    \A i, j \in 1..Len(order) :
        (i < j /\ lower(order[i]) = lower(order[j]))
            => KeyIndex(m, order[i]) < KeyIndex(m, order[j])

\* C8, as stated: the sections are ascending by case-insensitive project
\* identifier, and in the same order for two mappings that hold the same
\* entries in a different key order.
C8_SameOrderForAnyKeyOrder ==
    docA # << >> =>
        /\ AscendingIgnoringCase(SectionOrder(docA))
        /\ SectionOrder(docA) = SectionOrder(docB)

\* C8, amended: the sections are ascending by case-insensitive project
\* identifier; projects that are equal ignoring case come in the mapping's
\* key order; so two mappings with the same entries give the same order
\* whenever no two of their projects are equal ignoring case.
C8_SameOrderUnlessCaseTwins ==
    docA # << >> =>
        /\ AscendingIgnoringCase(SectionOrder(docA))
        /\ AscendingIgnoringCase(SectionOrder(docB))
        /\ Len(SectionOrder(docA)) = Len(mappingA)
        /\ TwinsInKeyOrder(mappingA, SectionOrder(docA))
        /\ TwinsInKeyOrder(mappingB, SectionOrder(docB))
        /\ NoCaseTwins(mappingA) => SectionOrder(docA) = SectionOrder(docB)

\* two key orders of projects that differ in case and not only in case,
\* rendered to the same section order
C8_Witness ==
    /\ docA # << >>
    /\ mappingA # mappingB
    /\ NoCaseTwins(mappingA)
    /\ \E i, j \in 1..Len(mappingA) :
          mappingA[i].project = << "B" >> /\ mappingA[j].project = << "a" >>
    /\ SectionOrder(docA) = SectionOrder(docB)

\* ---- parse_user_message (SpecFilter)

\* a tag "<name>" or "<name attributes>" at i: the index of its ">", or 0
TagEnd(s, i) ==
    IF ~(i + 1 <= Len(s) /\ s[i] = "<" /\ s[i+1] \in TagStartChars) THEN 0
    ELSE LET p == NameEnd(s, i + 2)
         IN  IF p > Len(s) THEN 0
             ELSE IF s[p] = ">" THEN p
             ELSE IF s[p] \in Whitespace THEN NextGt(s, p + 1)
             ELSE 0

SelfClosed(s, e) == s[e-1] = "/"

FollowedByOwnCloser(s, i, e) ==
    LET name == SubSeq(s, i + 1, NameEnd(s, i + 2) - 1)
    IN  /\ e + Len(name) + 3 <= Len(s)
        /\ SubSeq(s, e + 1, e + Len(name) + 3) = << "<", "/" >> \o name \o << ">" >>

\* open-tag occurrences: tag name plus optional attributes, not self-closed,
\* not immediately followed by its own closer
RECURSIVE UnclosedOpenTagsFrom(_, _)
UnclosedOpenTagsFrom(s, i) ==
    IF i > Len(s) THEN 0
    ELSE LET e == TagEnd(s, i)
         IN  IF e = 0 THEN UnclosedOpenTagsFrom(s, i + 1)
             ELSE (IF ~SelfClosed(s, e) /\ ~FollowedByOwnCloser(s, i, e) THEN 1 ELSE 0)
                  + UnclosedOpenTagsFrom(s, e + 1)

\* C9: a user record that passes rules 1-7 is rejected if and only if the
\* number of its open-tag occurrences differs from the number of its
\* close-tag occurrences.
C9_RejectedIffTagCountsDiffer ==
    LET content == Strip(line.content)
    IN  (/\ parsed.tag # "pending"
         /\ content # << >>
         /\ \A tag \in skip_tags : ~Contains(content, tag))
        => ((parsed.tag = "none")
              <=> (UnclosedOpenTagsFrom(content, 1) # close_tags(content)))
====
